---------------------------- MODULE Spec2Model ----------------------------
(***************************************************************************)
(* A model of the RFP analysis system: the text chunker and the embedding  *)
(* aggregator of RFPAnalyzer (src/rfp_analyzer.py), the flattening of an    *)
(* analysis into a search document (store_rfp_in_search), and the analysis  *)
(* request of the Streamlit script (src/app.py).                            *)
(*                                                                         *)
(* A Python str is a sequence of one-character strings.  The alphabet has   *)
(* one letter, the period (the chunker's sentence delimiter is ". ") and    *)
(* the space, which stands for every whitespace character.                  *)
(***************************************************************************)
EXTENDS Integers, Sequences, FiniteSets, TLC

\* ------------------------------------------------------------------ bounds

\* longest input text
MaxLen == 5

\* largest max_chunk_size handed to the chunker on its own
MaxN == 3

Alphabet == {"a", ".", " "}

RECURSIVE TextsOfLen(_)
TextsOfLen(n) ==
  IF n = 0 THEN {<<>>}
  ELSE {Append(t, c) : t \in TextsOfLen(n - 1), c \in Alphabet}

Texts == UNION {TextsOfLen(n) : n \in 0..MaxLen}

\* ------------------------------------------------------- Python str helpers

IsSpace(c) == c \in {" ", "\n"}

\* str.lstrip() / str.rstrip() / str.strip()
RECURSIVE LStrip(_)
LStrip(s) ==
  IF s # <<>> /\ IsSpace(Head(s)) THEN LStrip(Tail(s)) ELSE s

RECURSIVE RStrip(_)
RStrip(s) ==
  IF s # <<>> /\ IsSpace(s[Len(s)]) THEN RStrip(SubSeq(s, 1, Len(s) - 1)) ELSE s

\* a strip that leaves the whitespace at the end
StripLeftOnly(s) == LStrip(s)

Strip(s) == RStrip(LStrip(s))

\* text.split('. '): cut at every non-overlapping ". ", left to right;
\* "".split('. ') is [""]
RECURSIVE SplitFrom(_, _, _)
SplitFrom(s, i, cur) ==
  IF i > Len(s) THEN <<cur>>
  ELSE IF i < Len(s) /\ s[i] = "." /\ s[i + 1] = " "
       THEN <<cur>> \o SplitFrom(s, i + 2, <<>>)
       ELSE SplitFrom(s, i + 1, Append(cur, s[i]))

SplitSentences(s) == SplitFrom(s, 1, <<>>)

\* str.split(): the maximal runs of non-whitespace characters
RECURSIVE WordsFrom(_, _, _)
WordsFrom(s, i, cur) ==
  IF i > Len(s) THEN (IF cur = <<>> THEN <<>> ELSE <<cur>>)
  ELSE IF IsSpace(s[i])
       THEN (IF cur = <<>> THEN <<>> ELSE <<cur>>) \o WordsFrom(s, i + 1, <<>>)
       ELSE WordsFrom(s, i + 1, Append(cur, s[i]))

SplitWords(s) == WordsFrom(s, 1, <<>>)

\* the literal ". " appended to every sentence
Delim == <<".", " ">>

\* ------------------------------------------------------------- the chunker

\* the word loop (lines 191-197 and 218-224): st = [chunks, temp]
RECURSIVE PackWords(_, _, _, _)
PackWords(words, k, n, st) ==
  IF k > Len(words) THEN st
  ELSE LET word == words[k]
       IN  IF Len(st.temp) + 1 + Len(word) <= n
           THEN PackWords(words, k + 1, n,
                  [st EXCEPT !.temp = IF st.temp # <<>>
                                      THEN st.temp \o <<" ">> \o word
                                      ELSE word])
           ELSE PackWords(words, k + 1, n,
                  [chunks |-> IF st.temp # <<>>
                              THEN Append(st.chunks, Strip(st.temp))
                              ELSE st.chunks,
                   temp   |-> word])

\* a sentence loop that puts a finished chunk before the earlier ones
SentenceStepNewestFirst(sentence, n, st) ==
  LET test_chunk == IF st.current # <<>>
                    THEN st.current \o sentence \o Delim
                    ELSE sentence \o Delim
  IN  IF Len(test_chunk) <= n
      THEN [st EXCEPT !.current = test_chunk]
      ELSE IF st.current # <<>>
           THEN [chunks  |-> <<Strip(st.current)>> \o st.chunks,
                 current |-> sentence \o Delim]
           ELSE IF Len(sentence) > n
                THEN LET p == PackWords(SplitWords(sentence), 1, n,
                                        [chunks |-> st.chunks, temp |-> <<>>])
                     IN  [chunks  |-> p.chunks,
                          current |-> IF p.temp # <<>>
                                      THEN p.temp \o Delim
                                      ELSE st.current]
                ELSE [st EXCEPT !.current = sentence \o Delim]

\* the sentence loop (lines 173-202): st = [chunks, current]
SentenceStep(sentence, n, st) ==
  LET test_chunk == IF st.current # <<>>
                    THEN st.current \o sentence \o Delim
                    ELSE sentence \o Delim
  IN  IF Len(test_chunk) <= n
      THEN [st EXCEPT !.current = test_chunk]
      ELSE IF st.current # <<>>
           THEN [chunks  |-> Append(st.chunks, Strip(st.current)),
                 current |-> sentence \o Delim]
           ELSE IF Len(sentence) > n
                THEN LET p == PackWords(SplitWords(sentence), 1, n,
                                        [chunks |-> st.chunks, temp |-> <<>>])
                     IN  [chunks  |-> p.chunks,
                          current |-> IF p.temp # <<>>
                                      THEN p.temp \o Delim
                                      ELSE st.current]
                ELSE [st EXCEPT !.current = sentence \o Delim]

RECURSIVE SentencePass(_, _, _, _)
SentencePass(sentences, k, n, st) ==
  IF k > Len(sentences) THEN st
  ELSE SentencePass(sentences, k + 1, n, SentenceStep(sentences[k], n, st))

\* the re-scan of the produced chunks (lines 209-227)
RECURSIVE FinalPass(_, _, _, _)
FinalPass(chunks, k, n, final) ==
  IF k > Len(chunks) THEN final
  ELSE LET chunk == chunks[k]
       IN  IF Len(chunk) <= n
           THEN FinalPass(chunks, k + 1, n, Append(final, chunk))
           ELSE LET p == PackWords(SplitWords(chunk), 1, n,
                                   [chunks |-> final, temp |-> <<>>])
                IN  FinalPass(chunks, k + 1, n,
                      IF p.temp # <<>>
                      THEN Append(p.chunks, Strip(p.temp))
                      ELSE p.chunks)

\* _split_text_into_chunks(text, max_chunk_size)
split_text_into_chunks(t, n) ==
  LET s      == SentencePass(SplitSentences(t), 1, n,
                             [chunks |-> <<>>, current |-> <<>>])
      chunks == IF s.current # <<>>
                THEN Append(s.chunks, Strip(s.current))
                ELSE s.chunks
  IN  FinalPass(chunks, 1, n, <<>>)

\* --------------------------------------------------- embedding vectors

\* A float is a fraction <<numerator, denominator>>.
RatEq(x, y) == x[1] * y[2] = y[1] * x[2]

RatAdd(x, y) == <<x[1] * y[2] + y[1] * x[2], x[2] * y[2]>>

\* length of the vectors the embedding service answers with
\* (text-embedding-ada-002: 1536, the index's vector_search_dimensions),
\* scaled down
embeddingDimension == 2

\* the service's answers differ in a "seed" 1..MaxSeed
MaxSeed == 2

\* response.data[0].embedding of the answer with seed s
ServiceVector(s) == [d \in 1..embeddingDimension |-> <<s * d, 1>>]

RECURSIVE ColumnSum(_, _, _)
ColumnSum(vecs, d, k) ==
  IF k = 0 THEN <<0, 1>> ELSE RatAdd(ColumnSum(vecs, d, k - 1), vecs[k][d])

\* np.mean(embeddings, axis=0).tolist() of a non-empty list of vectors
MeanAxis0(vecs) ==
  [d \in 1..Len(vecs[1]) |->
     LET sum == ColumnSum(vecs, d, Len(vecs))
     IN  <<sum[1], sum[2] * Len(vecs)>>]

\* ------------------------------------------------------- analysis objects

\* None, and Python's truth value of a str or None
NoneVal == <<"None">>

Truthy(v) == v # NoneVal /\ v # <<>>

\* dict.get(key, "")
Get(d, key) == IF key \in DOMAIN d THEN d[key] ELSE <<>>

\* The keys of the prompt's schema, in ASCII:
\*   1_core_overview         "1_핵심개요"      background_purpose "배경목적",
\*                                             expected_outcome "기대성과"
\*   2_schedule_milestones   "2_일정마일스톤"  qa_deadline "질의응답마감"
\*   3_budget_price          "3_예산가격"      estimated_budget "추정예산"
\*   4_evaluation_criteria   "4_평가선정기준"  quant_qual_scoring "정량정성배점",
\*                                             bonus_penalty_conditions "가점감점요건",
\*                                             disqualification_conditions "탈락필수요건"
\*   5_requirements          "5_요구사항"      functional "기능요구",
\*                                             non_functional "비기능요구",
\*                                             interface_integration "인터페이스연계",
\*                                             data "데이터",
\*                                             compatibility_standards "호환성표준",
\*                                             requirement_details "요구사항_상세목록"
RequirementKeys ==
  <<"functional", "non_functional", "interface_integration", "data",
    "compatibility_standards">>

EvaluationKeys ==
  <<"quant_qual_scoring", "bonus_penalty_conditions",
    "disqualification_conditions">>

\* ----------------------------------------------------------- json.dumps

\* A JSON text is a sequence of tokens: punctuation and string literals.
Punct(p) == [t |-> "punct", v |-> p]

Lit(v) == [t |-> "str", v |-> v]

RECURSIVE JoinComma(_)
JoinComma(items) ==
  IF items = <<>> THEN <<>>
  ELSE IF Len(items) = 1 THEN items[1]
  ELSE items[1] \o <<Punct(",")>> \o JoinComma(Tail(items))

\* json.dumps of a list of str
DumpsList(l) ==
  <<Punct("[")>> \o JoinComma([k \in 1..Len(l) |-> <<Lit(l[k])>>])
                 \o <<Punct("]")>>

\* json.dumps of a dict given as its keys in insertion order and its values
DumpsDict(keys, d) ==
  <<Punct("{")>>
    \o JoinComma([k \in 1..Len(keys) |->
                    <<Lit(keys[k]), Punct(":"), Lit(d[keys[k]])>>])
    \o <<Punct("}")>>

\* --------------------------------------------------------------- flattening

\* document_title (lines 551-559)
TitleLimit == 100

Prefix(s, n) == SubSeq(s, 1, IF Len(s) < n THEN Len(s) ELSE n)

\* a resolution that prefers the title derived from the analysis to the one
\* handed over
DocumentTitleAnalysisFirst(analysis, title) ==
  LET project_overview ==
        IF "1_core_overview" \in DOMAIN analysis
        THEN LET core_overview == analysis["1_core_overview"]
             IN  Strip(Get(core_overview, "background_purpose")
                       \o <<" ">>
                       \o Get(core_overview, "expected_outcome"))
        ELSE <<>>
  IN  IF project_overview # <<>>
      THEN Prefix(project_overview, TitleLimit)
      ELSE IF Truthy(title) THEN title
      ELSE <<"R", "F", "P", " ", "D", "o", "c", "u", "m", "e", "n", "t">>

DocumentTitle(analysis, title) ==
  IF Truthy(title) THEN title
  ELSE LET project_overview ==
             IF "1_core_overview" \in DOMAIN analysis
             THEN LET core_overview == analysis["1_core_overview"]
                  IN  Strip(Get(core_overview, "background_purpose")
                            \o <<" ">>
                            \o Get(core_overview, "expected_outcome"))
             ELSE <<>>
       IN  IF project_overview # <<>>
           THEN Prefix(project_overview, TitleLimit)
           ELSE <<"R", "F", "P", " ", "D", "o", "c", "u", "m", "e", "n", "t">>

\* budget_range (lines 562-565)
BudgetRange(analysis) ==
  IF "3_budget_price" \in DOMAIN analysis
  THEN Get(analysis["3_budget_price"], "estimated_budget")
  ELSE <<>>

\* submission_deadline (lines 568-571)
SubmissionDeadline(analysis) ==
  IF "2_schedule_milestones" \in DOMAIN analysis
  THEN Get(analysis["2_schedule_milestones"], "qa_deadline")
  ELSE <<>>

\* [req for req in technical_requirements if req]
TechnicalRequirementsUnfiltered(analysis) ==
  LET requirements_info == analysis["5_requirements"]
  IN  [k \in 1..Len(RequirementKeys) |->
         Get(requirements_info, RequirementKeys[k])]

\* a flattening that forgets the filter of line 584
TechnicalRequirementsKeepEmpty(analysis) ==
  IF "5_requirements" \in DOMAIN analysis
  THEN TechnicalRequirementsUnfiltered(analysis)
  ELSE <<>>

\* technical_requirements (lines 574-584)
TechnicalRequirements(analysis) ==
  IF "5_requirements" \in DOMAIN analysis
  THEN SelectSeq(TechnicalRequirementsUnfiltered(analysis), Truthy)
  ELSE <<>>

\* evaluation_criteria, serialized (lines 587-594 and 604)
EvaluationCriteriaJson(analysis) ==
  IF "4_evaluation_criteria" \in DOMAIN analysis
  THEN LET eval_info == analysis["4_evaluation_criteria"]
       IN  DumpsDict(EvaluationKeys,
                     [k \in {EvaluationKeys[j] : j \in 1..Len(EvaluationKeys)}
                        |-> Get(eval_info, k)])
  ELSE DumpsDict(<<>>, <<>>)

\* document (lines 596-607)
Document(analysis, content, title, content_vector, clock) ==
  [id                  |-> <<"rfp_", clock>>,
   title               |-> DocumentTitle(analysis, title),
   content             |-> content,
   requirements        |-> DumpsList(TechnicalRequirements(analysis)),
   project_type        |-> Get(analysis, "project_type"),
   budget_range        |-> BudgetRange(analysis),
   submission_deadline |-> SubmissionDeadline(analysis),
   evaluation_criteria |-> EvaluationCriteriaJson(analysis),
   created_date        |-> clock,
   content_vector      |-> content_vector]

\* ------------------------------------------------------------------ inputs

\* max_chunk_size of get_embedding (4000 characters, line 127), scaled down
\* so that a text of MaxLen characters is "long"
EmbeddingMaxChunkSize == 3

\* a text that names the field it is the value of
FieldText(k) == <<k>>

\* every dict with keys among `keys`, the value of key k being "" or
\* FieldText(k)
Dicts(keys) ==
  UNION {{[k \in present |-> IF k \in empty THEN <<>> ELSE FieldText(k)]
            : empty \in SUBSET present}
           : present \in SUBSET keys}

\* a field longer than half the title limit
LongFieldLen == 60

LongField == [i \in 1..LongFieldLen |-> "a"]

Range(seq) == {seq[k] : k \in 1..Len(seq)}

EmptyAnalysis == <<>>

\* analyses that hold one category (or project_type) alone
Category1Dicts ==
  [{"background_purpose", "expected_outcome"}
     -> {<<>>, <<" ">>, <<"a">>, LongField}]
  \cup Dicts({"background_purpose", "expected_outcome"})

AnalysesOfCategory1 ==
  {[c \in {"1_core_overview"} |-> d] : d \in Category1Dicts}

AnalysesOfOtherCategories ==
  {[c \in {"2_schedule_milestones"} |-> d] : d \in Dicts({"qa_deadline"})}
  \cup {[c \in {"3_budget_price"} |-> d]
          : d \in Dicts({"estimated_budget"})}
  \cup {[c \in {"4_evaluation_criteria"} |-> d]
          : d \in Dicts(Range(EvaluationKeys))}
  \cup {[c \in {"5_requirements"} |-> d]
          : d \in Dicts(Range(RequirementKeys) \cup {"requirement_details"})}
  \cup {[c \in {"project_type"} |-> v] : v \in {<<>>, <<"S", "I">>}}
  \cup {EmptyAnalysis}

\* an analysis with every category
FullAnalysis ==
  [c \in {"1_core_overview", "2_schedule_milestones", "3_budget_price",
          "4_evaluation_criteria", "5_requirements"} |->
     CASE c = "1_core_overview" ->
            [k \in {"background_purpose", "expected_outcome"} |-> FieldText(k)]
       [] c = "2_schedule_milestones" -> [k \in {"qa_deadline"} |-> FieldText(k)]
       [] c = "3_budget_price" -> [k \in {"estimated_budget"} |-> FieldText(k)]
       [] c = "4_evaluation_criteria" ->
            [k \in Range(EvaluationKeys) |-> FieldText(k)]
       [] OTHER -> [k \in Range(RequirementKeys) |-> FieldText(k)]]

\* pdf_title: None, "" or a title
Titles == {NoneVal, <<>>, <<"T">>}

\* a content embedded with one request, and one embedded chunk by chunk
ShortContent == <<"a">>

LongContent == [i \in 1..(EmbeddingMaxChunkSize + 2) |->
                  IF i = EmbeddingMaxChunkSize THEN " " ELSE "a"]

\* what store_rfp_in_search is called with: the extractor hands over only
\* texts that are not blank (lines 300, 330, 341)
StoreInputs ==
  {[content |-> c, analysis |-> a, title |-> NoneVal]
     : c \in {t \in Texts : Strip(t) # <<>>}, a \in {FullAnalysis}}
  \cup {[content |-> c, analysis |-> a, title |-> NoneVal]
          : c \in {ShortContent, LongContent}, a \in AnalysesOfOtherCategories}
  \cup {[content |-> c, analysis |-> a, title |-> t]
          : c \in {ShortContent, LongContent},
            a \in AnalysesOfCategory1 \cup {EmptyAnalysis}, t \in Titles}

\* ------------------------------------------------------------------- state

VARIABLES
  pc,              \* where the operation under way stands
  text,            \* the text handed to the chunker / to get_embedding
  max_chunk_size,  \* the chunker's second argument
  final_chunks,    \* what _split_text_into_chunks returned
  caller,          \* who called get_embedding: "direct" or "store"
  chunks,          \* get_embedding: the chunks of a long text
  embeddings,      \* get_embedding: the vectors obtained so far
  embed_log,       \* the requests made to the embedding service, in order
  ge_result,       \* what get_embedding returned
  ge_error,        \* get_embedding reported an error (line 162)
  rfp_analysis,    \* store_rfp_in_search: its arguments ...
  pdf_title,
  uploads,         \* the documents handed to upload_documents, in order
  index,           \* the search index: its documents by their id
  store_result,    \* what store_rfp_in_search returned
  now,             \* datetime.now(), in seconds
  analyzer,        \* st.session_state.analyzer
  analysis_result, \* st.session_state.analysis_result
  rfp_content,     \* st.session_state.rfp_content
  pdf_title_state, \* st.session_state.pdf_title
  uploaded_file,   \* the file in the uploader widget
  disk,            \* the temporary files on disk, by the uploaded file's name
  request,         \* the analysis request under way: its locals and its calls
  rerun,           \* st.rerun() was called in this script run
  shown,           \* the analysis this script run has displayed (line 127)
  pressed,         \* the button this script run answers to, "none" without
  response,        \* analyze_rfp_with_gpt: the content of the model's message
  gpt_log,         \* the requests made to the text-generation service
  gpt_result,      \* what analyze_rfp_with_gpt returned
  gpt_error,       \* the error analyze_rfp_with_gpt reported (lines 538, 542)
  file,            \* extract_text_from_file: what is at file_path
  extracted,       \* what extract_text_from_file returned and reported
  search_query,    \* the text in the search tab's input (app.py line 196)
  search_text,     \* the search_text handed to search_client.search
  store_hits,      \* the results the search store produced, in its order
  similar_rfps     \* st.session_state.similar_rfps

chunkVars == <<max_chunk_size, final_chunks>>

embedVars == <<caller, chunks, embeddings, embed_log, ge_result, ge_error>>

storeVars == <<rfp_analysis, pdf_title, uploads, index, store_result, now>>

appVars ==
  <<analyzer, analysis_result, rfp_content, pdf_title_state, uploaded_file,
    disk, request, rerun, shown, pressed>>

analyzeVars == <<response, gpt_log, gpt_result, gpt_error>>

extractVars == <<file, extracted>>

searchVars == <<search_query, search_text, store_hits, similar_rfps>>

vars ==
  <<pc, text, chunkVars, embedVars, storeVars, appVars, analyzeVars,
    extractVars, searchVars>>

ChunkIdle == max_chunk_size = 0 /\ final_chunks = <<>>

EmbedIdle ==
  /\ caller = "none"
  /\ chunks = <<>>
  /\ embeddings = <<>>
  /\ embed_log = <<>>
  /\ ge_result = <<>>
  /\ ge_error = FALSE

StoreIdle ==
  /\ rfp_analysis = EmptyAnalysis
  /\ pdf_title = NoneVal
  /\ uploads = <<>>
  /\ index = <<>>
  /\ store_result = "none"
  /\ now = 0

NoRequest ==
  [file |-> "None", content |-> "None", title |-> "None", analysis |-> "None",
   calls |-> <<>>, exit |-> "none"]

AnalyzeIdle ==
  /\ response = NoneVal
  /\ gpt_log = <<>>
  /\ gpt_result = NoneVal
  /\ gpt_error = "none"

ExtractIdle ==
  /\ file = NoneVal
  /\ extracted = NoneVal

SearchIdle ==
  /\ search_query = <<>>
  /\ search_text = NoneVal
  /\ store_hits = <<>>
  /\ similar_rfps = <<>>

AppIdle ==
  /\ analyzer = "None"
  /\ analysis_result = "None"
  /\ rfp_content = "unset"
  /\ pdf_title_state = "unset"
  /\ uploaded_file = "None"
  /\ disk = {}
  /\ request = NoRequest
  /\ rerun = FALSE
  /\ shown = "None"
  /\ pressed = "none"

\* -------------------------------------------------- the chunker on its own

InitChunk ==
  /\ pc = "split_call"
  /\ SearchIdle
  /\ text \in Texts
  /\ max_chunk_size \in 1..MaxN
  /\ final_chunks = <<>>
  /\ EmbedIdle
  /\ StoreIdle
  /\ AppIdle
  /\ AnalyzeIdle
  /\ ExtractIdle

SplitCall ==
  /\ pc = "split_call"
  /\ final_chunks' = split_text_into_chunks(text, max_chunk_size)
  /\ pc' = "split_done"
  /\ UNCHANGED <<text, max_chunk_size, embedVars, storeVars, appVars,
                 analyzeVars, extractVars, searchVars>>

\* the same call once more
SplitCallAgain ==
  /\ pc = "split_done"
  /\ final_chunks' = split_text_into_chunks(text, max_chunk_size)
  /\ pc' = "split_again"
  /\ UNCHANGED <<text, max_chunk_size, embedVars, storeVars, appVars,
                 analyzeVars, extractVars, searchVars>>

NextChunk ==
  \/ SplitCall
  \/ SplitCallAgain

SpecChunk == InitChunk /\ [][NextChunk]_vars

\* ------------------------------------------------------------ get_embedding

Request(input, ok, seed) == [input |-> input, ok |-> ok, seed |-> seed]

\* len(text) <= max_chunk_size: one request (lines 129-135); its failure is
\* caught at line 161
GE_ShortOk ==
  /\ pc = "ge_call"
  /\ Len(text) <= EmbeddingMaxChunkSize
  /\ \E s \in 1..MaxSeed :
       /\ embed_log' = Append(embed_log, Request(text, TRUE, s))
       /\ ge_result' = ServiceVector(s)
  /\ pc' = "ge_return"
  /\ UNCHANGED <<text, chunkVars, caller, chunks, embeddings, ge_error,
                 storeVars, appVars, analyzeVars, extractVars, searchVars>>

GE_ShortFail ==
  /\ pc = "ge_call"
  /\ Len(text) <= EmbeddingMaxChunkSize
  /\ embed_log' = Append(embed_log, Request(text, FALSE, 0))
  /\ ge_result' = <<>>
  /\ ge_error' = TRUE
  /\ pc' = "ge_return"
  /\ UNCHANGED <<text, chunkVars, caller, chunks, embeddings, storeVars,
                 appVars, analyzeVars, extractVars, searchVars>>

\* a long text is split (lines 136-144); with no chunk the loop is skipped
\* and [] returned (line 159)
GE_Long ==
  /\ pc = "ge_call"
  /\ Len(text) > EmbeddingMaxChunkSize
  /\ chunks' = split_text_into_chunks(text, EmbeddingMaxChunkSize)
  /\ embeddings' = <<>>
  /\ IF chunks' = <<>>
     THEN ge_result' = <<>> /\ pc' = "ge_return"
     ELSE ge_result' = ge_result /\ pc' = "ge_chunk"
  /\ UNCHANGED <<text, chunkVars, caller, embed_log, ge_error, storeVars,
                 appVars, analyzeVars, extractVars, searchVars>>

\* one iteration of the loop (lines 145-152) whose request is answered; after
\* the last one the vectors are averaged (lines 155-157)
GE_ChunkOk ==
  /\ pc = "ge_chunk"
  /\ LET i == Len(embeddings) + 1
     IN  \E s \in 1..MaxSeed :
           /\ embed_log' = Append(embed_log, Request(chunks[i], TRUE, s))
           /\ embeddings' = Append(embeddings, ServiceVector(s))
           /\ IF i = Len(chunks)
              THEN ge_result' = MeanAxis0(embeddings') /\ pc' = "ge_return"
              ELSE ge_result' = ge_result /\ pc' = "ge_chunk"
  /\ UNCHANGED <<text, chunkVars, caller, chunks, ge_error, storeVars,
                 appVars, analyzeVars, extractVars, searchVars>>

\* a failure handler that falls back on the average of the vectors obtained
\* so far
GE_ChunkFailPartialAverage ==
  /\ pc = "ge_chunk"
  /\ LET i == Len(embeddings) + 1
     IN  embed_log' = Append(embed_log, Request(chunks[i], FALSE, 0))
  /\ ge_result' = IF embeddings # <<>> THEN MeanAxis0(embeddings) ELSE <<>>
  /\ ge_error' = TRUE
  /\ pc' = "ge_return"
  /\ UNCHANGED <<text, chunkVars, caller, chunks, embeddings, storeVars,
                 appVars, analyzeVars, extractVars, searchVars>>

\* one iteration whose request fails: the exception leaves the loop and is
\* caught at line 161, and [] is returned
GE_ChunkFail ==
  /\ pc = "ge_chunk"
  /\ LET i == Len(embeddings) + 1
     IN  embed_log' = Append(embed_log, Request(chunks[i], FALSE, 0))
  /\ embeddings' = <<>>
  /\ ge_result' = <<>>
  /\ ge_error' = TRUE
  /\ pc' = "ge_return"
  /\ UNCHANGED <<text, chunkVars, caller, chunks, storeVars, appVars,
                 analyzeVars, extractVars, searchVars>>

\* ------------------------------------------------------ store_rfp_in_search

\* search_client.upload_documents([document]) (line 609): the index is keyed
\* by id; a document whose id the index holds replaces the one held
upload_documents(idx, document) ==
  [id \in DOMAIN idx \cup {document.id} |->
     IF id = document.id THEN document ELSE idx[id]]

\* after get_embedding returned (line 549): the document is built and handed
\* to upload_documents (lines 551-610)
StoreUploadOk ==
  /\ pc = "ge_return"
  /\ caller = "store"
  /\ LET document == Document(rfp_analysis, text, pdf_title, ge_result, now)
     IN  /\ uploads' = Append(uploads, document)
         /\ index' = upload_documents(index, document)
  /\ store_result' = "True"
  /\ pc' = "store_done"
  /\ UNCHANGED <<text, chunkVars, embedVars, rfp_analysis, pdf_title, now,
                 appVars, analyzeVars, extractVars, searchVars>>

\* upload_documents raises: caught at line 612
StoreUploadFail ==
  /\ pc = "ge_return"
  /\ caller = "store"
  /\ LET document == Document(rfp_analysis, text, pdf_title, ge_result, now)
     IN  uploads' = Append(uploads, document)
  /\ store_result' = "False"
  /\ pc' = "store_done"
  /\ UNCHANGED <<text, chunkVars, embedVars, rfp_analysis, pdf_title, index,
                 now, appVars, analyzeVars, extractVars, searchVars>>

\* get_embedding called on any text, or store_rfp_in_search called and at
\* its first statement, the call of get_embedding(rfp_content)
InitStore ==
  /\ pc = "ge_call"
  /\ SearchIdle
  /\ ChunkIdle
  /\ AppIdle
  /\ AnalyzeIdle
  /\ ExtractIdle
  /\ chunks = <<>>
  /\ embeddings = <<>>
  /\ embed_log = <<>>
  /\ ge_result = <<>>
  /\ ge_error = FALSE
  /\ uploads = <<>>
  /\ index = <<>>
  /\ store_result = "none"
  /\ now = 0
  /\ \/ /\ caller = "direct"
        /\ text \in Texts
        /\ rfp_analysis = EmptyAnalysis
        /\ pdf_title = NoneVal
     \/ /\ caller = "store"
        /\ \E in \in StoreInputs :
             /\ text = in.content
             /\ rfp_analysis = in.analysis
             /\ pdf_title = in.title

NextStore ==
  \/ GE_ShortOk
  \/ GE_ShortFail
  \/ GE_Long
  \/ GE_ChunkOk
  \/ GE_ChunkFail
  \/ StoreUploadOk
  \/ StoreUploadFail

SpecStore == InitStore /\ [][NextStore]_vars

\* ------------------------------------ store_rfp_in_search, call after call

\* the calls of store_rfp_in_search that one index sees
MaxStores == 2

SequenceInputs ==
  {[content |-> c, analysis |-> a, title |-> NoneVal]
     : c \in {ShortContent, LongContent},
       a \in {EmptyAnalysis, [k \in {"project_type"} |-> <<"S", "I">>]}}

\* store_rfp_in_search is called again, by this session or another, in the
\* second of the call before or in the next one
StoreCallAgain ==
  /\ pc = "store_done"
  /\ Len(uploads) < MaxStores
  /\ \E in \in SequenceInputs :
       /\ text' = in.content
       /\ rfp_analysis' = in.analysis
       /\ pdf_title' = in.title
  /\ \E elapsed \in 0..1 : now' = now + elapsed
  /\ chunks' = <<>>
  /\ embeddings' = <<>>
  /\ embed_log' = <<>>
  /\ ge_result' = <<>>
  /\ ge_error' = FALSE
  /\ store_result' = "none"
  /\ pc' = "ge_call"
  /\ UNCHANGED <<chunkVars, caller, uploads, index, appVars, analyzeVars,
                 extractVars, searchVars>>

InitStoreSequence ==
  /\ pc = "ge_call"
  /\ SearchIdle
  /\ ChunkIdle
  /\ AppIdle
  /\ AnalyzeIdle
  /\ ExtractIdle
  /\ chunks = <<>>
  /\ embeddings = <<>>
  /\ embed_log = <<>>
  /\ ge_result = <<>>
  /\ ge_error = FALSE
  /\ uploads = <<>>
  /\ index = <<>>
  /\ store_result = "none"
  /\ now = 0
  /\ caller = "store"
  /\ \E in \in SequenceInputs :
       /\ text = in.content
       /\ rfp_analysis = in.analysis
       /\ pdf_title = in.title

NextStoreSequence ==
  \/ GE_ShortOk
  \/ GE_ShortFail
  \/ GE_Long
  \/ GE_ChunkOk
  \/ GE_ChunkFail
  \/ StoreUploadOk
  \/ StoreUploadFail
  \/ StoreCallAgain

SpecStoreSequence == InitStoreSequence /\ [][NextStoreSequence]_vars

\* ------------------------------------------------------ analyze_rfp_with_gpt

\* The content of the model's message is a sequence of lexemes: the braces,
\* "m" for a member with a plain value ("key": "value"), "k" for a key and
\* its colon ("key":), and white space.  Outside an object "m" and "k" are
\* words of the prose.
MaxResponseLen == 5

ResponseAlphabet == {"{", "}", "m", "k", " "}

\* message.content: a text, or None
Responses ==
  UNION {[1..n -> ResponseAlphabet] : n \in 0..MaxResponseLen} \cup {NoneVal}

\* the first and the last index of c in s, 0 without one
FirstIndex(s, c) ==
  IF \E i \in 1..Len(s) : s[i] = c
  THEN CHOOSE i \in 1..Len(s) : s[i] = c /\ \A j \in 1..(i - 1) : s[j] # c
  ELSE 0

LastIndex(s, c) ==
  IF \E i \in 1..Len(s) : s[i] = c
  THEN CHOOSE i \in 1..Len(s) : s[i] = c /\ \A j \in (i + 1)..Len(s) : s[j] # c
  ELSE 0

\* re.search(r'\{.*\}', content, re.DOTALL) (line 534): the match starts at
\* the first "{" that has a "}" after it and, .* being greedy and matching
\* every character, ends at the last "}" of the content; None without a match
re_search(content) ==
  LET first == FirstIndex(content, "{")
      last == LastIndex(content, "}")
  IN  IF first # 0 /\ last > first THEN SubSeq(content, first, last)
      ELSE NoneVal

RECURSIVE SkipWhitespace(_, _)
SkipWhitespace(s, i) ==
  IF i <= Len(s) /\ s[i] = " " THEN SkipWhitespace(s, i + 1) ELSE i

\* json.loads reading an object at index i: the index after its "}", or 0
\* when s has no well-formed object there.  An object is empty or holds one
\* member: a plain one, or a key whose value is an object.
RECURSIVE ObjectEnd(_, _)
ObjectEnd(s, i) ==
  IF i > Len(s) \/ s[i] # "{" THEN 0
  ELSE LET j == SkipWhitespace(s, i + 1)
       IN  IF j > Len(s) THEN 0
           ELSE IF s[j] = "}" THEN j + 1
           ELSE LET value_end ==
                      IF s[j] = "m" THEN j + 1
                      ELSE IF s[j] = "k"
                      THEN ObjectEnd(s, SkipWhitespace(s, j + 1))
                      ELSE 0
                    close == IF value_end = 0 THEN 0
                             ELSE SkipWhitespace(s, value_end)
                IN  IF close # 0 /\ close <= Len(s) /\ s[close] = "}"
                    THEN close + 1
                    ELSE 0

\* json.loads(s) raises unless s is one object between optional white space
JsonDecodeError(s) ==
  LET end == ObjectEnd(s, SkipWhitespace(s, 1))
  IN  end = 0 \/ SkipWhitespace(s, end) # Len(s) + 1

\* the object json.loads returns, written without its white space
json_loads(s) == SelectSeq(s, LAMBDA c : c # " ")

\* the empty dict
EmptyObject == <<"{", "}">>

\* the request is answered (lines 521-532)
GPT_RequestOk ==
  /\ pc = "gpt_call"
  /\ gpt_log' = Append(gpt_log, [input |-> text, ok |-> TRUE])
  /\ \E content \in Responses : response' = content
  /\ pc' = "gpt_parse"
  /\ UNCHANGED <<text, chunkVars, embedVars, storeVars, appVars, gpt_result,
                 gpt_error, extractVars, searchVars>>

\* the request raises, or cannot be made (no client): caught at line 541
GPT_RequestFail ==
  /\ pc = "gpt_call"
  /\ gpt_log' = Append(gpt_log, [input |-> text, ok |-> FALSE])
  /\ gpt_result' = EmptyObject
  /\ gpt_error' = "exception"
  /\ pc' = "gpt_return"
  /\ UNCHANGED <<text, chunkVars, embedVars, storeVars, appVars, response,
                 extractVars, searchVars>>

\* a parser that asks the service again, once, when it cannot use the answer
GPT_ParseOrRetry ==
  /\ pc = "gpt_parse"
  /\ LET json_match == IF response = NoneVal THEN NoneVal
                       ELSE re_search(response)
         usable == json_match # NoneVal /\ ~JsonDecodeError(json_match)
     IN  IF usable
         THEN gpt_result' = json_loads(json_match) /\ pc' = "gpt_return"
         ELSE IF Len(gpt_log) < 2
         THEN gpt_result' = gpt_result /\ pc' = "gpt_call"
         ELSE gpt_result' = EmptyObject /\ pc' = "gpt_return"
  /\ UNCHANGED <<text, chunkVars, embedVars, storeVars, appVars, response,
                 gpt_log, gpt_error, extractVars, searchVars>>

\* lines 532-543: the match is parsed and returned; without a match, and when
\* re.search (content is None) or json.loads raises, an error is reported and
\* {} returned
GPT_Parse ==
  /\ pc = "gpt_parse"
  /\ IF response = NoneVal
     THEN gpt_result' = EmptyObject /\ gpt_error' = "exception"
     ELSE LET json_match == re_search(response)
          IN  IF json_match = NoneVal
              THEN gpt_result' = EmptyObject /\ gpt_error' = "no_json"
              ELSE IF JsonDecodeError(json_match)
              THEN gpt_result' = EmptyObject /\ gpt_error' = "exception"
              ELSE gpt_result' = json_loads(json_match) /\ gpt_error' = "none"
  /\ pc' = "gpt_return"
  /\ UNCHANGED <<text, chunkVars, embedVars, storeVars, appVars, response,
                 gpt_log, extractVars, searchVars>>

\* analyze_rfp_with_gpt called with an extracted text
InitAnalyze ==
  /\ pc = "gpt_call"
  /\ SearchIdle
  /\ text \in {ShortContent, LongContent}
  /\ ChunkIdle
  /\ EmbedIdle
  /\ StoreIdle
  /\ AppIdle
  /\ AnalyzeIdle
  /\ ExtractIdle

NextAnalyze ==
  \/ GPT_RequestOk
  \/ GPT_RequestFail
  \/ GPT_Parse

SpecAnalyze == InitAnalyze /\ [][NextAnalyze]_vars

\* ---------------------------------------------------- extract_text_from_file

\* len(first_paragraph) < 100 (line 316) and len(first_line) < 100 (line 346)
DocxTitleLimit == 100

TxtTitleLimit == 100

\* max_pages (line 279), scaled down
PdfMaxPages == 2

\* the extensions of the modelled paths, and str.lower() on them
Extensions == {".pdf", ".PDF", ".docx", ".Docx", ".txt", ".rtf", ".RTF", ""}

Lower(ext) ==
  CASE ext = ".PDF" -> ".pdf"
    [] ext = ".Docx" -> ".docx"
    [] ext = ".RTF" -> ".rtf"
    [] OTHER -> ext

\* os.path.splitext(os.path.basename(file_path))[0] of every modelled path
Stem == <<"f">>

\* a paragraph or a line too long for a title
LongLine == [i \in 1..DocxTitleLimit |-> "a"]

\* the texts of a paragraph
ParagraphTexts == {<<>>, <<" ">>, <<"T">>, <<" ", "U">>, LongLine}

MaxParagraphs == 2

\* page.extract_text(): a text, nothing, or an exception
PageTexts == {<<>>, <<"p">>, <<"raises">>}

\* pdf_reader.metadata.title, None without metadata or title
MetadataTitles == {NoneVal, <<>>, <<" ">>, <<"T", " ">>}

\* the contents of a text file
TxtContents ==
  UNION {[1..n -> {"T", " ", "\n"}] : n \in 1..3}
  \cup {LongLine, LongLine \o <<"\n", "T">>}

\* What is at file_path.  state: "missing", "directory", "empty" (a file of
\* 0 bytes), "unreadable" (open() is refused), "corrupt" (not of the format
\* its extension names; for .txt, not UTF-8), "ok".
FileAt(ext, state, paragraphs, pages, metadata_title, content) ==
  [ext |-> ext, state |-> state, paragraphs |-> paragraphs, pages |-> pages,
   metadata_title |-> metadata_title, content |-> content]

Files ==
  {FileAt(e, s, <<>>, <<>>, NoneVal, <<>>)
     : e \in Extensions,
       s \in {"missing", "directory", "empty", "unreadable", "corrupt"}}
  \cup {FileAt(e, "ok", <<>>, <<>>, NoneVal, <<"T">>)
          : e \in {".rtf", ".RTF", ""}}
  \cup {FileAt(e, "ok", p, <<>>, NoneVal, <<>>)
          : e \in {".docx", ".Docx"},
            p \in UNION {[1..n -> ParagraphTexts] : n \in 0..MaxParagraphs}}
  \cup {FileAt(e, "ok", <<>>, p, t, <<>>)
          : e \in {".pdf", ".PDF"},
            p \in UNION {[1..n -> PageTexts] : n \in 0..(PdfMaxPages + 1)},
            t \in MetadataTitles}
  \cup {FileAt(".txt", "ok", <<>>, <<>>, NoneVal, c) : c \in TxtContents}

\* return None, None after st.error
Failure(error) == [text |-> NoneVal, title |-> NoneVal, error |-> error]

Success(extracted_text, title) ==
  [text |-> extracted_text, title |-> title, error |-> "none"]

\* the loop of lines 287-298 over the first n pages
RECURSIVE PdfText(_, _)
PdfText(pages, n) ==
  IF n = 0 THEN <<>>
  ELSE PdfText(pages, n - 1)
       \o (IF pages[n] \in {<<>>, <<"raises">>} THEN <<>>
           ELSE pages[n] \o <<"\n">>)

\* lines 257-305
ExtractPdf(f) ==
  IF f.state = "unreadable" THEN Failure("permission")
  ELSE IF f.state = "corrupt" THEN Failure("other")
  ELSE LET total_pages == Len(f.pages)
           metadata_title ==
             IF Truthy(f.metadata_title) THEN Strip(f.metadata_title)
             ELSE NoneVal
           title == IF Truthy(metadata_title) THEN metadata_title ELSE Stem
           pages_to_process ==
             IF total_pages > PdfMaxPages THEN PdfMaxPages ELSE total_pages
           extracted_text == PdfText(f.pages, pages_to_process)
       IN  IF Strip(extracted_text) = <<>> THEN Failure("pdf_no_text")
           ELSE Success(extracted_text, title)

\* the loop of lines 326-328
RECURSIVE DocxText(_, _)
DocxText(paragraphs, n) ==
  IF n = 0 THEN <<>>
  ELSE DocxText(paragraphs, n - 1)
       \o (IF Strip(paragraphs[n]) # <<>> THEN paragraphs[n] \o <<"\n">>
           ELSE <<>>)

\* lines 307-335
ExtractDocx(f) ==
  IF f.state = "unreadable" THEN Failure("permission")
  ELSE IF f.state = "corrupt" THEN Failure("other")
  ELSE LET first_paragraph ==
             IF f.paragraphs # <<>> THEN Strip(f.paragraphs[1]) ELSE <<>>
           docx_title ==
             IF first_paragraph # <<>> /\ Len(first_paragraph) < DocxTitleLimit
             THEN first_paragraph
             ELSE Stem
           extracted_text == DocxText(f.paragraphs, Len(f.paragraphs))
       IN  IF Strip(extracted_text) = <<>> THEN Failure("docx_no_text")
           ELSE Success(extracted_text, docx_title)

\* content.split('\n')[0]
FirstLine(content) ==
  LET newline == CHOOSE i \in 1..(Len(content) + 1) :
                   /\ i = Len(content) + 1 \/ content[i] = "\n"
                   /\ \A j \in 1..(i - 1) : content[j] # "\n"
  IN  SubSeq(content, 1, newline - 1)

\* lines 337-358
ExtractTxt(f) ==
  IF f.state = "unreadable" THEN Failure("permission")
  ELSE IF f.state = "corrupt" THEN Failure("decode")
  ELSE IF Strip(f.content) = <<>> THEN Failure("txt_empty")
  ELSE LET first_line == Strip(FirstLine(f.content))
           txt_title ==
             IF first_line # <<>> /\ Len(first_line) < TxtTitleLimit
             THEN first_line
             ELSE Stem
       IN  Success(f.content, txt_title)

\* lines 231-378: the checks of the path, then the branch of the extension
extract_text_from_file(f) ==
  IF f.state = "missing" THEN Failure("not_exists")
  ELSE IF f.state = "directory" THEN Failure("not_a_file")
  ELSE IF f.state = "empty" THEN Failure("empty_file")
  ELSE LET file_extension == Lower(f.ext)
       IN  IF file_extension = ".pdf" THEN ExtractPdf(f)
           ELSE IF file_extension = ".docx" THEN ExtractDocx(f)
           ELSE IF file_extension = ".txt" THEN ExtractTxt(f)
           ELSE Failure("unsupported")

InitExtract ==
  /\ pc = "extract_call"
  /\ SearchIdle
  /\ text = <<>>
  /\ ChunkIdle
  /\ EmbedIdle
  /\ StoreIdle
  /\ AppIdle
  /\ AnalyzeIdle
  /\ file \in Files
  /\ extracted = NoneVal

ExtractCall ==
  /\ pc = "extract_call"
  /\ extracted' = extract_text_from_file(file)
  /\ pc' = "extract_done"
  /\ UNCHANGED <<text, chunkVars, embedVars, storeVars, appVars, analyzeVars,
                 file, searchVars>>

NextExtract == ExtractCall

SpecExtract == InitExtract /\ [][NextExtract]_vars

\* ------------------------------------------------------ the script (app.py)

\* The script runs from top to bottom on every user action.  pc = "idle"
\* when no script run is under way.  Contents, titles and analyses are
\* abstract values here; the temporary file of an upload named f is
\* "temp_" + f, and disk holds f when that file exists.
FileNames == {"a.pdf", "b.txt"}

ExtractedContents == {"c1", "c2"}

ExtractedTitles == {"t1", "t2"}

AnalysisResults == {"r1", "r2"}

\* RFPAnalyzer(search_endpoint=..., ...) at line 40: __init__ (line 35 of
\* rfp_analyzer.py) takes no argument, so the call raises TypeError
ConstructorRaises == TRUE

\* lines 78-82: every script run that sees an uploaded file writes it to disk
WriteTemp ==
  IF analyzer # "None" /\ uploaded_file # "None"
  THEN disk \cup {uploaded_file}
  ELSE disk

\* lines 123-127, inside the branches of lines 74 and 78: a run that gets
\* there displays the session's analysis
DisplayOf(upload) ==
  IF analyzer # "None" /\ upload # "None" /\ analysis_result # "None"
  THEN analysis_result
  ELSE "None"

\* the user puts a file in the uploader (shown only with an analyzer, line 72)
Upload ==
  /\ pc = "idle"
  /\ analyzer # "None"
  /\ \E f \in FileNames :
       /\ uploaded_file' = f
       /\ disk' = disk \cup {f}
  /\ shown' = DisplayOf(uploaded_file')
  /\ pressed' = "none"
  /\ UNCHANGED <<pc, text, chunkVars, embedVars, storeVars, analyzeVars,
                 analyzer, analysis_result, rfp_content, pdf_title_state,
                 request, rerun, extractVars, searchVars>>

\* the user takes the file out of the uploader
RemoveUpload ==
  /\ pc = "idle"
  /\ uploaded_file # "None"
  /\ uploaded_file' = "None"
  /\ shown' = DisplayOf(uploaded_file')
  /\ pressed' = "none"
  /\ UNCHANGED <<pc, text, chunkVars, embedVars, storeVars, analyzeVars,
                 analyzer, analysis_result, rfp_content, pdf_title_state,
                 disk, request, rerun, extractVars, searchVars>>

\* the service-initialization button (lines 38-50), then the rest of the run
PressInitialize ==
  /\ pc = "idle"
  /\ analyzer' = IF ConstructorRaises THEN analyzer ELSE "no_clients"
  /\ disk' = WriteTemp
  /\ shown' = DisplayOf(uploaded_file)
  /\ pressed' = "initialize"
  /\ UNCHANGED <<pc, text, chunkVars, embedVars, storeVars, analyzeVars,
                 analysis_result, rfp_content, pdf_title_state, uploaded_file,
                 request, rerun, extractVars, searchVars>>

\* any other widget of the page: a script run that handles no analysis
PressOther ==
  /\ pc = "idle"
  /\ disk' = WriteTemp
  /\ shown' = DisplayOf(uploaded_file)
  /\ pressed' = "other"
  /\ UNCHANGED <<pc, text, chunkVars, embedVars, storeVars, analyzeVars,
                 analyzer, analysis_result, rfp_content, pdf_title_state,
                 uploaded_file, request, rerun, extractVars, searchVars>>

\* the analysis button (line 87): the run writes the file, then enters the try
PressAnalyze ==
  /\ pc = "idle"
  /\ analyzer # "None"
  /\ uploaded_file # "None"
  /\ disk' = disk \cup {uploaded_file}
  /\ request' = [NoRequest EXCEPT !.file = uploaded_file]
  /\ pc' = "extract"
  /\ shown' = "None"
  /\ pressed' = "analyze"
  /\ UNCHANGED <<text, chunkVars, embedVars, storeVars, analyzeVars, analyzer,
                 analysis_result, rfp_content, pdf_title_state, uploaded_file,
                 rerun, extractVars, searchVars>>

\* extract_text_from_file returns a text and a title (lines 91-96)
ExtractOk ==
  /\ pc = "extract"
  /\ \E c \in ExtractedContents, t \in ExtractedTitles :
       request' = [request EXCEPT !.content = c, !.title = t,
                                  !.calls = Append(@, "extract")]
  /\ pc' = "analyze"
  /\ UNCHANGED <<pressed, shown, text, chunkVars, embedVars, storeVars,
                 analyzeVars, analyzer, analysis_result, rfp_content,
                 pdf_title_state, uploaded_file, disk, rerun, extractVars,
                 searchVars>>

\* a handler that goes on to the analysis without an extracted text
ExtractFailStillAnalyzes ==
  /\ pc = "extract"
  /\ request' = [request EXCEPT !.calls = Append(@, "extract")]
  /\ pc' = "analyze"
  /\ UNCHANGED <<pressed, shown, text, chunkVars, embedVars, storeVars,
                 analyzeVars, analyzer, analysis_result, rfp_content,
                 pdf_title_state, uploaded_file, disk, rerun, extractVars,
                 searchVars>>

\* extract_text_from_file returns (None, None) (lines 112-115)
ExtractFail ==
  /\ pc = "extract"
  /\ request' = [request EXCEPT !.calls = Append(@, "extract"),
                                !.exit = "extract_failed"]
  /\ pc' = "finally"
  /\ UNCHANGED <<pressed, shown, text, chunkVars, embedVars, storeVars,
                 analyzeVars, analyzer, analysis_result, rfp_content,
                 pdf_title_state, uploaded_file, disk, rerun, extractVars,
                 searchVars>>

\* analyze_rfp_with_gpt returns an analysis (lines 98-100); without clients
\* (initialize_services never called) it can only return {}
AnalyzeOk ==
  /\ pc = "analyze"
  /\ analyzer = "ready"
  /\ \E r \in AnalysisResults :
       request' = [request EXCEPT !.analysis = r,
                                  !.calls = Append(@, "analyze")]
  /\ pc' = "store"
  /\ UNCHANGED <<pressed, shown, text, chunkVars, embedVars, storeVars,
                 analyzeVars, analyzer, analysis_result, rfp_content,
                 pdf_title_state, uploaded_file, disk, rerun, extractVars,
                 searchVars>>

\* a handler that forgets the earlier analysis when the new one is empty
AnalyzeFailClearsSession ==
  /\ pc = "analyze"
  /\ request' = [request EXCEPT !.calls = Append(@, "analyze"),
                                !.exit = "analysis_empty"]
  /\ analysis_result' = "None"
  /\ pc' = "finally"
  /\ UNCHANGED <<pressed, shown, text, chunkVars, embedVars, storeVars,
                 analyzeVars, analyzer, rfp_content, pdf_title_state,
                 uploaded_file, disk, rerun, extractVars, searchVars>>

\* analyze_rfp_with_gpt returns {} (lines 110-111)
AnalyzeFail ==
  /\ pc = "analyze"
  /\ request' = [request EXCEPT !.calls = Append(@, "analyze"),
                                !.exit = "analysis_empty"]
  /\ pc' = "finally"
  /\ UNCHANGED <<pressed, shown, text, chunkVars, embedVars, storeVars,
                 analyzeVars, analyzer, analysis_result, rfp_content,
                 pdf_title_state, uploaded_file, disk, rerun, extractVars,
                 searchVars>>

\* a handler that keeps the analysis only when it was stored
StoreReturnsKeepsStoredOnly ==
  /\ pc = "store"
  /\ \E stored \in BOOLEAN :
       /\ request' = [request EXCEPT !.calls = Append(@, "store"),
                                     !.exit = IF stored THEN "stored"
                                              ELSE "store_failed"]
       /\ analysis_result' = IF stored THEN request.analysis
                             ELSE analysis_result
       /\ rfp_content' = IF stored THEN request.content ELSE rfp_content
       /\ pdf_title_state' = IF stored THEN request.title ELSE pdf_title_state
  /\ rerun' = TRUE
  /\ pc' = "finally"
  /\ UNCHANGED <<pressed, shown, text, chunkVars, embedVars, storeVars,
                 analyzeVars, analyzer, uploaded_file, disk, extractVars,
                 searchVars>>

\* store_rfp_in_search returns True or False; either way the session takes
\* the result and st.rerun() is called (lines 102-109)
StoreReturns ==
  /\ pc = "store"
  /\ \E stored \in BOOLEAN :
       request' = [request EXCEPT !.calls = Append(@, "store"),
                                  !.exit = IF stored THEN "stored"
                                           ELSE "store_failed"]
  /\ analysis_result' = request.analysis
  /\ rfp_content' = request.content
  /\ pdf_title_state' = request.title
  /\ rerun' = TRUE
  /\ pc' = "finally"
  /\ UNCHANGED <<pressed, shown, text, chunkVars, embedVars, storeVars,
                 analyzeVars, analyzer, uploaded_file, disk, extractVars,
                 searchVars>>

\* an exception leaves one of the three calls (line 116)
TryBodyRaises ==
  /\ pc \in {"extract", "analyze", "store"}
  /\ request' = [request EXCEPT !.exit = "raised"]
  /\ pc' = "finally"
  /\ UNCHANGED <<pressed, shown, text, chunkVars, embedVars, storeVars,
                 analyzeVars, analyzer, analysis_result, rfp_content,
                 pdf_title_state, uploaded_file, disk, rerun, extractVars,
                 searchVars>>

\* a cleanup written after the try statement instead of in its finally
\* clause: the exception of st.rerun() skips it
FinallySkippedByRerun ==
  /\ pc = "finally"
  /\ disk' = IF rerun THEN disk ELSE disk \ {request.file}
  /\ pc' = "after_request"
  /\ UNCHANGED <<pressed, shown, text, chunkVars, embedVars, storeVars,
                 analyzeVars, analyzer, analysis_result, rfp_content,
                 pdf_title_state, uploaded_file, request, rerun, extractVars,
                 searchVars>>

\* the finally clause (lines 118-121); the request ends here
Finally ==
  /\ pc = "finally"
  /\ disk' = disk \ {request.file}
  /\ pc' = "after_request"
  /\ UNCHANGED <<pressed, shown, text, chunkVars, embedVars, storeVars,
                 analyzeVars, analyzer, analysis_result, rfp_content,
                 pdf_title_state, uploaded_file, request, rerun, extractVars,
                 searchVars>>

\* without a rerun the script goes on to its end (lines 123-223)
FinishRun ==
  /\ pc = "after_request"
  /\ ~rerun
  /\ request' = NoRequest
  /\ pc' = "idle"
  /\ shown' = DisplayOf(uploaded_file)
  /\ UNCHANGED <<pressed, text, chunkVars, embedVars, storeVars, analyzeVars,
                 analyzer, analysis_result, rfp_content, pdf_title_state,
                 uploaded_file, disk, rerun, extractVars, searchVars>>

\* st.rerun(): the script stops and runs again from the top, no button pressed
Rerun ==
  /\ pc = "after_request"
  /\ rerun
  /\ rerun' = FALSE
  /\ disk' = WriteTemp
  /\ request' = NoRequest
  /\ pc' = "idle"
  /\ shown' = DisplayOf(uploaded_file)
  /\ pressed' = "none"
  /\ UNCHANGED <<text, chunkVars, embedVars, storeVars, analyzeVars, analyzer,
                 analysis_result, rfp_content, pdf_title_state, uploaded_file,
                 extractVars, searchVars>>

\* A session: st.session_state outlives the script runs.  The analysis
\* handler runs only in a session that holds an analyzer (line 72), with its
\* clients ("ready") or without ("no_clients"); PressInitialize is what the
\* script itself does about the analyzer.
InitApp ==
  /\ pc = "idle"
  /\ SearchIdle
  /\ text = <<>>
  /\ ChunkIdle
  /\ EmbedIdle
  /\ StoreIdle
  /\ AnalyzeIdle
  /\ ExtractIdle
  /\ analyzer \in {"None", "no_clients", "ready"}
  /\ analysis_result = "None"
  /\ rfp_content = "unset"
  /\ pdf_title_state = "unset"
  /\ uploaded_file = "None"
  /\ disk = {}
  /\ request = NoRequest
  /\ rerun = FALSE
  /\ shown = "None"
  /\ pressed = "none"

NextApp ==
  \/ Upload
  \/ RemoveUpload
  \/ PressInitialize
  \/ PressOther
  \/ PressAnalyze
  \/ ExtractOk
  \/ ExtractFail
  \/ AnalyzeOk
  \/ AnalyzeFail
  \/ StoreReturns
  \/ TryBodyRaises
  \/ Finally
  \/ FinishRun
  \/ Rerun

SpecApp == InitApp /\ [][NextApp]_vars

\* ------------------------------------------------------ search_similar_rfps

MaxQueryLen == 3

SearchLimit == 2

\* what the user can type in the search tab's input (app.py line 196)
Queries == UNION {TextsOfLen(n) : n \in 0..MaxQueryLen}

\* iterating a str yields its characters, each a str of length one
Iterate(s) == [i \in 1..Len(s) |-> <<s[i]>>]

\* " ".join(iterable): the items with one space between neighbours
RECURSIVE JoinSpace(_)
JoinSpace(items) ==
  IF items = <<>> THEN <<>>
  ELSE IF Len(items) = 1 THEN items[1]
  ELSE items[1] \o <<" ">> \o JoinSpace(Tail(items))

\* a result of search_client.search: its selected fields (here the title)
\* and, when the store scored it, its "@search.score"
HitTitles == {"t1", "t2"}

StoreResults == [title : HitTitles] \cup [title : HitTitles, score : {1}]

ResultLists ==
  UNION {[1..n -> StoreResults] : n \in 0..SearchLimit}

\* the dict appended for one result (lines 640-647)
SimilarRfp(result) ==
  [title |-> result.title,
   score |-> IF "score" \in DOMAIN result THEN result.score ELSE 0]

\* the search button with an empty input (app.py lines 198-199, 212-213):
\* a warning, no call
SearchEmptyQuery ==
  /\ pc = "search_tab"
  /\ search_query = <<>>
  /\ pc' = "search_done"
  /\ UNCHANGED <<text, chunkVars, embedVars, storeVars, appVars, analyzeVars,
                 extractVars, searchVars>>

\* the search button (app.py lines 198-202): search_similar_rfps is handed
\* the input string as current_rfp_keywords, joins what iterating it yields
\* (line 620) and calls get_embedding with the joined text (line 623)
SearchCall ==
  /\ pc = "search_tab"
  /\ search_query # <<>>
  /\ text' = JoinSpace(Iterate(search_query))
  /\ caller' = "search"
  /\ pc' = "ge_call"
  /\ UNCHANGED <<chunkVars, chunks, embeddings, embed_log, ge_result,
                 ge_error, storeVars, appVars, analyzeVars, extractVars,
                 searchVars>>

\* `if not query_vector: return []` (lines 625-626; app.py line 203)
SearchNoVector ==
  /\ pc = "ge_return"
  /\ caller = "search"
  /\ ge_result = <<>>
  /\ similar_rfps' = <<>>
  /\ pc' = "search_done"
  /\ UNCHANGED <<text, chunkVars, embedVars, storeVars, appVars, analyzeVars,
                 extractVars, search_query, search_text, store_hits>>

\* the hybrid query is answered (lines 628-649): one dict per result, in the
\* order the store yields them; the list goes to the session (app.py 203)
SearchStoreOk ==
  /\ pc = "ge_return"
  /\ caller = "search"
  /\ ge_result # <<>>
  /\ search_text' = JoinSpace(Iterate(search_query))
  /\ \E results \in ResultLists :
       /\ store_hits' = results
       /\ similar_rfps' = [k \in 1..Len(results) |-> SimilarRfp(results[k])]
  /\ pc' = "search_done"
  /\ UNCHANGED <<text, chunkVars, embedVars, storeVars, appVars, analyzeVars,
                 extractVars, search_query>>

\* the query raises: reported, [] returned (lines 651-653)
SearchStoreFail ==
  /\ pc = "ge_return"
  /\ caller = "search"
  /\ ge_result # <<>>
  /\ search_text' = JoinSpace(Iterate(search_query))
  /\ similar_rfps' = <<>>
  /\ pc' = "search_done"
  /\ UNCHANGED <<text, chunkVars, embedVars, storeVars, appVars, analyzeVars,
                 extractVars, search_query, store_hits>>

\* a session that holds an analyzer, with some text typed in the search tab
InitSearch ==
  /\ pc = "search_tab"
  /\ text = <<>>
  /\ ChunkIdle
  /\ EmbedIdle
  /\ StoreIdle
  /\ AnalyzeIdle
  /\ ExtractIdle
  /\ analyzer = "ready"
  /\ analysis_result = "None"
  /\ rfp_content = "unset"
  /\ pdf_title_state = "unset"
  /\ uploaded_file = "None"
  /\ disk = {}
  /\ request = NoRequest
  /\ rerun = FALSE
  /\ shown = "None"
  /\ pressed = "none"
  /\ search_query \in Queries
  /\ search_text = NoneVal
  /\ store_hits = <<>>
  /\ similar_rfps = <<>>

NextSearch ==
  \/ SearchEmptyQuery
  \/ SearchCall
  \/ GE_ShortOk
  \/ GE_ShortFail
  \/ GE_Long
  \/ GE_ChunkOk
  \/ GE_ChunkFail
  \/ SearchNoVector
  \/ SearchStoreOk
  \/ SearchStoreFail

SpecSearch == InitSearch /\ [][NextSearch]_vars

\* ------------------------------------------------------------------ claims

NonWhitespace(s) == SelectSeq(s, LAMBDA c : ~IsSpace(c))

RECURSIVE Concat(_)
Concat(seqs) == IF seqs = <<>> THEN <<>> ELSE Head(seqs) \o Concat(Tail(seqs))

\* C1: every chunk _split_text_into_chunks returns is at most max_chunk_size
\* long, unless it is one word of the input that is itself longer.
C1_ChunkLengthBound ==
  pc = "split_done" =>
    \A k \in 1..Len(final_chunks) :
      \/ Len(final_chunks[k]) <= max_chunk_size
      \/ /\ final_chunks[k] \in Range(SplitWords(text))
         /\ Len(final_chunks[k]) > max_chunk_size

\* C2: the chunks, joined in order, have the non-whitespace characters of
\* the input, in the same order: nothing lost, nothing added.
C2_ContentPreserved ==
  pc = "split_done" =>
    NonWhitespace(Concat(final_chunks)) = NonWhitespace(text)

\* C3: the empty string is split into no chunk, whatever max_chunk_size.
C3_EmptyTextNoChunks ==
  (pc = "split_done" /\ text = <<>>) => final_chunks = <<>>

LongText == Len(text) > EmbeddingMaxChunkSize

Returned == pc \in {"ge_return", "store_done"}

RECURSIVE SeedSum(_)
SeedSum(k) == IF k = 0 THEN 0 ELSE SeedSum(k - 1) + embed_log[k].seed

\* C4: with no request failing, get_embedding makes one request for a text
\* of at most max_chunk_size characters (and does not split it), and one per
\* chunk of a longer text, returning the element-wise mean of the answers;
\* what it returns has embeddingDimension entries in both cases.
C4_RequestsMeanAndDimension ==
  (Returned /\ \A k \in 1..Len(embed_log) : embed_log[k].ok) =>
    /\ Len(ge_result) = embeddingDimension
    /\ ~LongText =>
         /\ Len(embed_log) = 1
         /\ embed_log[1].input = text
         /\ chunks = <<>>
    /\ LongText =>
         LET split == split_text_into_chunks(text, EmbeddingMaxChunkSize)
         IN  /\ Len(embed_log) = Len(split)
             /\ \A k \in 1..Len(split) : embed_log[k].input = split[k]
             /\ \A d \in 1..embeddingDimension :
                  RatEq(ge_result[d], <<SeedSum(Len(embed_log)) * d, Len(embed_log)>>)

\* C5: every document store_rfp_in_search hands to the index has a
\* content_vector of embeddingDimension (1536) entries, whatever the content
\* and whatever became of the embedding requests.
C5_UploadedVectorDimension ==
  \A k \in 1..Len(uploads) :
    Len(uploads[k].content_vector) = embeddingDimension

\* C6: when the request for chunk i of a long text fails, no request follows
\* it, the vectors of the chunks before i are dropped, and get_embedding
\* ends with its error outcome, the empty list, never an average.
C6_FailureAbortsAggregation ==
  \A i \in 1..Len(embed_log) :
    (LongText /\ ~embed_log[i].ok) =>
      /\ embed_log[i].input = chunks[i]
      /\ i = Len(embed_log)
      /\ \A k \in 1..(i - 1) : embed_log[k].ok
      /\ Returned
      /\ ge_error
      /\ ge_result = <<>>
      /\ embeddings = <<>>

\* C6's case: the second request fails, with a vector obtained before it and
\* a chunk left after it
C6_FailureInTheMiddle ==
  /\ LongText
  /\ Len(embed_log) = 2
  /\ embed_log[1].ok
  /\ ~embed_log[2].ok
  /\ Len(chunks) > 2
  /\ Returned

\* C7: when an analysis request has ended, the temporary file written for its
\* upload is gone, whichever way the request ended.
C7_TempFileDeletedAtRequestEnd ==
  pc = "after_request" =>
    /\ request.file \notin disk
    /\ request.exit \in {"extract_failed", "analysis_empty", "stored",
                         "store_failed", "raised"}

\* C7's case: a request that stored its analysis and asked for a rerun has
\* ended
C7_SuccessfulRequestEnded ==
  /\ pc = "after_request"
  /\ request.exit = "stored"
  /\ rerun
  /\ request.calls = <<"extract", "analyze", "store">>

Literals(tokens) == SelectSeq(tokens, LAMBDA x : x.t = "str")

\* the items of a serialized list, the keys and the values of a serialized
\* dict
JsonArrayItems(tokens) ==
  [k \in 1..Len(Literals(tokens)) |-> Literals(tokens)[k].v]

JsonObjectKeys(tokens) ==
  [k \in 1..(Len(Literals(tokens)) \div 2) |-> Literals(tokens)[2 * k - 1].v]

JsonObjectValues(tokens) ==
  [k \in 1..(Len(Literals(tokens)) \div 2) |-> Literals(tokens)[2 * k].v]

\* C9: store_rfp_in_search gets as far as the upload, and the stored
\* evaluation_criteria always has exactly the three fixed keys; without a
\* category 4 in the analysis each of them maps to "".
C9_EvaluationCriteriaThreeKeys ==
  /\ pc = "store_done" => Len(uploads) = 1
  /\ \A k \in 1..Len(uploads) :
       /\ JsonObjectKeys(uploads[k].evaluation_criteria) = EvaluationKeys
       /\ "4_evaluation_criteria" \notin DOMAIN rfp_analysis =>
            JsonObjectValues(uploads[k].evaluation_criteria) = <<<<>>, <<>>, <<>>>>

\* the sub-fields of category 5 that are present and not empty, in the
\* fixed order
ExpectedRequirements(analysis) ==
  IF "5_requirements" \notin DOMAIN analysis THEN <<>>
  ELSE LET info == analysis["5_requirements"]
           Kept(key) == key \in DOMAIN info /\ info[key] # <<>>
           keys == SelectSeq(RequirementKeys, Kept)
       IN  [j \in 1..Len(keys) |-> info[keys[j]]]

\* C10: the stored requirements are the five sub-fields of category 5 that
\* are present and not empty, in the fixed order: no empty string, no other
\* field, and nothing when category 5 is absent.
C10_RequirementsFlattening ==
  \A k \in 1..Len(uploads) :
    LET items == JsonArrayItems(uploads[k].requirements)
    IN  /\ items = ExpectedRequirements(rfp_analysis)
        /\ \A j \in 1..Len(items) :
             /\ items[j] # <<>>
             /\ "5_requirements" \in DOMAIN rfp_analysis
             /\ \E key \in Range(RequirementKeys) :
                  /\ key \in DOMAIN rfp_analysis["5_requirements"]
                  /\ items[j] = rfp_analysis["5_requirements"][key]
        /\ "5_requirements" \notin DOMAIN rfp_analysis => items = <<>>

\* C10's case: of category 5 only non_functional has a text; functional is
\* empty, data is absent, and another field of the category is present
C10_OnlyNonFunctionalStored ==
  /\ Len(uploads) = 1
  /\ "5_requirements" \in DOMAIN rfp_analysis
  /\ LET info == rfp_analysis["5_requirements"]
     IN  /\ DOMAIN info = {"functional", "non_functional", "requirement_details"}
         /\ info["functional"] = <<>>
         /\ info["non_functional"] # <<>>
         /\ info["requirement_details"] # <<>>
         /\ JsonArrayItems(uploads[1].requirements) = <<info["non_functional"]>>

\* the background and outcome fields of category 1, joined by a space and
\* stripped; "" without the category
JoinedOverview(analysis) ==
  IF "1_core_overview" \notin DOMAIN analysis THEN <<>>
  ELSE LET c == analysis["1_core_overview"]
           background == IF "background_purpose" \in DOMAIN c
                         THEN c["background_purpose"] ELSE <<>>
           outcome == IF "expected_outcome" \in DOMAIN c
                      THEN c["expected_outcome"] ELSE <<>>
       IN  Strip(background \o <<" ">> \o outcome)

FallbackTitle == <<"R", "F", "P", " ", "D", "o", "c", "u", "m", "e", "n", "t">>

\* C11: the stored title is the title handed over when there is one (not
\* None, not ""); without one it is the joined category-1 text, cut to at
\* most 100 characters, when that text is not empty; otherwise it is
\* "RFP Document".  It is never empty.
C11_TitlePrecedence ==
  \A k \in 1..Len(uploads) :
    LET stored == uploads[k].title
        joined == JoinedOverview(rfp_analysis)
    IN  /\ (pdf_title # NoneVal /\ pdf_title # <<>>) => stored = pdf_title
        /\ (pdf_title \in {NoneVal, <<>>} /\ joined # <<>>) =>
             /\ Len(stored) <= TitleLimit
             /\ Len(stored) = Len(joined) \/ Len(stored) = TitleLimit
             /\ stored = SubSeq(joined, 1, Len(stored))
        /\ (pdf_title \in {NoneVal, <<>>} /\ joined = <<>>) =>
             stored = FallbackTitle
        /\ stored # <<>>
        /\ stored # NoneVal

\* C11's case: no title handed over and a category-1 text of more than 100
\* characters, stored cut to 100
C11_LongOverviewTruncated ==
  /\ Len(uploads) = 1
  /\ pdf_title = NoneVal
  /\ Len(JoinedOverview(rfp_analysis)) > TitleLimit
  /\ Len(uploads[1].title) = TitleLimit

\* the index at which the braces opened from index i on are all closed, 0
\* when they never are
RECURSIVE RunEnd(_, _, _)
RunEnd(s, i, depth) ==
  IF i > Len(s) THEN 0
  ELSE IF s[i] = "{" THEN RunEnd(s, i + 1, depth + 1)
  ELSE IF s[i] = "}"
  THEN IF depth = 1 THEN i ELSE RunEnd(s, i + 1, depth - 1)
  ELSE RunEnd(s, i + 1, depth)

\* the first top-level balanced {...} run of s, None without one
FirstBalancedRun(s) ==
  LET first == FirstIndex(s, "{")
      last == IF first = 0 THEN 0 ELSE RunEnd(s, first, 0)
  IN  IF last = 0 THEN NoneVal ELSE SubSeq(s, first, last)

ContainsObject(s) ==
  \E a \in 1..Len(s) : \E b \in a..Len(s) : ~JsonDecodeError(SubSeq(s, a, b))

\* s is prose around one well-formed object: its first balanced run is a
\* well-formed object and what follows it holds no other
ProseAroundOneObject(s) ==
  LET run == FirstBalancedRun(s)
      after == FirstIndex(s, "{") + Len(run)
  IN  /\ run # NoneVal
      /\ ~JsonDecodeError(run)
      /\ ~ContainsObject(SubSeq(s, after, Len(s)))

AnsweredAndReturned ==
  pc = "gpt_return" /\ gpt_log[1].ok /\ response # NoneVal

\* C12: when the model's answer is prose around one well-formed JSON object,
\* analyze_rfp_with_gpt returns that object (the first top-level balanced
\* {...} run of the answer, parsed), whatever the prose contains, braces
\* included.
C12_ReturnsTheEmbeddedObject ==
  (AnsweredAndReturned /\ ProseAroundOneObject(response)) =>
    gpt_result = json_loads(FirstBalancedRun(response))

C14_DistinctIdsNoOverwrite ==
  [][(pc = "ge_return" /\ pc' = "store_done" /\ store_result' = "True") =>
       /\ Cardinality(DOMAIN index') = Cardinality(DOMAIN index) + 1
       /\ \A id \in DOMAIN index : index'[id] = index[id]]_vars

StoreFailedInRequest ==
  /\ pc \in {"finally", "after_request"}
  /\ request.exit = "store_failed"

\* C15: when extraction and analysis succeeded and store_rfp_in_search
\* returned False, the session holds the analysis, the content and the title
\* of this request, and the script run that follows displays that analysis.
C15_StoreFailureKeepsAnalysis ==
  /\ [](StoreFailedInRequest =>
          /\ request.calls = <<"extract", "analyze", "store">>
          /\ request.analysis \in AnalysisResults
          /\ analysis_result = request.analysis
          /\ rfp_content = request.content
          /\ pdf_title_state = request.title
          /\ rerun)
  /\ [][(StoreFailedInRequest /\ pc = "after_request") =>
          /\ shown' = request.analysis
          /\ analysis_result' = request.analysis
          /\ rfp_content' = request.content
          /\ pdf_title_state' = request.title]_vars

\* C15's case: a request whose storing failed has ended, with its analysis
\* in the session and a rerun asked for
C15_StoreFailedAnalysisHeld ==
  /\ StoreFailedInRequest
  /\ pc = "after_request"
  /\ rerun
  /\ analysis_result = request.analysis
  /\ analysis_result \in AnalysisResults

\* the first paragraph that has a character other than white space, stripped
FirstNonEmptyParagraph(paragraphs) ==
  LET k == CHOOSE i \in 1..Len(paragraphs) :
             /\ Strip(paragraphs[i]) # <<>>
             /\ \A j \in 1..(i - 1) : Strip(paragraphs[j]) = <<>>
  IN  Strip(paragraphs[k])

DocxExtracted ==
  /\ pc = "extract_done"
  /\ Lower(file.ext) = ".docx"
  /\ extracted.error = "none"

\* C16: the title of an extracted DOCX document is its first non-empty
\* paragraph when that paragraph has fewer than 100 characters, and the
\* filename stem otherwise, leading empty paragraphs being passed over.
C16_DocxTitleFirstNonEmptyParagraph ==
  DocxExtracted =>
    LET paragraph == FirstNonEmptyParagraph(file.paragraphs)
    IN  extracted.title = IF Len(paragraph) < DocxTitleLimit THEN paragraph
                          ELSE Stem

SupportedExtensions == {".pdf", ".docx", ".txt"}

\* C17: for a file (a path that exists and is no directory) whose extension,
\* lower-cased, is none of .pdf, .docx and .txt, extract_text_from_file
\* reports the unsupported format and returns no text and no title; it
\* reports that for no other file.
C17_UnsupportedExtensionFailure ==
  pc = "extract_done" =>
    /\ (/\ file.state \notin {"missing", "directory"}
        /\ Lower(file.ext) \notin SupportedExtensions) =>
         extracted = Failure("unsupported")
    /\ extracted.error = "unsupported" =>
         /\ Lower(file.ext) \notin SupportedExtensions
         /\ extracted.text = NoneVal
         /\ extracted.title = NoneVal

\* the words of the chunks, chunk after chunk
RECURSIVE ChunkWords(_)
ChunkWords(chunk_seq) ==
  IF chunk_seq = <<>> THEN <<>>
  ELSE SplitWords(Head(chunk_seq)) \o ChunkWords(Tail(chunk_seq))

\* a word of a chunk is a word of the text, as it was or followed by the "."
\* of the delimiter the chunker puts after every fragment
SameWord(chunk_word, text_word) ==
  chunk_word = text_word \/ chunk_word = text_word \o <<".">>

\* the chunk words from the i-th on are found, in their order, among the
\* text words from the j-th on; a chunk word that is the delimiter alone is
\* no word of the text and is passed over
RECURSIVE InOrderFrom(_, _, _, _)
InOrderFrom(chunk_words, i, text_words, j) ==
  IF i > Len(chunk_words) THEN TRUE
  ELSE IF chunk_words[i] = <<".">>
  THEN InOrderFrom(chunk_words, i + 1, text_words, j)
  ELSE IF j > Len(text_words) THEN FALSE
  ELSE IF SameWord(chunk_words[i], text_words[j])
  THEN InOrderFrom(chunk_words, i + 1, text_words, j + 1)
  ELSE InOrderFrom(chunk_words, i, text_words, j + 1)

C19_InitializeSetsAnalyzer ==
  (pc = "idle" /\ pressed = "initialize") => analyzer # "None"

Session == <<analysis_result, rfp_content, pdf_title_state>>

\* C20: no step of a request that ends without an analysis (no text
\* extracted, an empty analysis, an exception) changes the session's
\* analysis_result, rfp_content or pdf_title; they change only in the step
\* that follows a successful analysis, to the values of that request.
C20_FailedRequestKeepsSession ==
  [][/\ request'.exit \in {"extract_failed", "analysis_empty", "raised"} =>
          Session' = Session
     /\ Session' # Session =>
          /\ pc = "store"
          /\ request.analysis \in AnalysisResults
          /\ Session' = <<request.analysis, request.content, request.title>>]_vars

\* C20's case: a request that got an empty analysis has ended, and the
\* session still holds the analysis and the content of an earlier request
C20_FailedAfterEarlierSuccess ==
  /\ pc = "after_request"
  /\ request.exit = "analysis_empty"
  /\ request.content \in ExtractedContents
  /\ analysis_result \in AnalysisResults
  /\ rfp_content \in ExtractedContents \ {request.content}

\* the calls a request makes are the first ones of extract, analyze, store
CallsInOrder ==
  \E n \in 0..3 : request.calls = SubSeq(<<"extract", "analyze", "store">>, 1, n)

\* C21: a request calls extract, analyze and store in that order; it is at
\* the analysis only with an extracted text, at the store only with an
\* analysis that is not empty, and whenever the session holds an
\* analysis_result it holds the rfp_content too.
C21_StepsGatedAndContentSet ==
  /\ CallsInOrder
  /\ pc = "analyze" =>
       /\ request.calls = <<"extract">>
       /\ request.content \in ExtractedContents
  /\ (\E k \in 1..Len(request.calls) : request.calls[k] = "analyze") =>
       request.content \in ExtractedContents
  /\ pc = "store" =>
       /\ request.calls = <<"extract", "analyze">>
       /\ request.analysis \in AnalysisResults
  /\ (\E k \in 1..Len(request.calls) : request.calls[k] = "store") =>
       request.analysis \in AnalysisResults
  /\ analysis_result # "None" =>
       /\ rfp_content \in ExtractedContents
       /\ pdf_title_state \in ExtractedTitles

\* C21's case: a session that holds an analysis and its content, at the
\* store step of a later request
C21_SecondRequestAtStore ==
  /\ pc = "store"
  /\ analysis_result \in AnalysisResults
  /\ rfp_content \in ExtractedContents
  /\ request.content # rfp_content
  /\ request.calls = <<"extract", "analyze">>

\* C22: for every text and every max_chunk_size >= 1, no returned chunk is
\* the empty string, and no returned chunk begins or ends with a whitespace
\* character.
C22_ChunksNonEmptyAndStripped ==
  pc \in {"split_done", "split_again"} =>
    \A k \in 1..Len(final_chunks) :
      /\ final_chunks[k] # <<>>
      /\ ~IsSpace(final_chunks[k][1])
      /\ ~IsSpace(final_chunks[k][Len(final_chunks[k])])

\* C22's case: a text with whitespace at both ends and before a sentence
\* delimiter, returned as more than one chunk
C22_WhitespaceAroundSentences ==
  /\ pc = "split_done"
  /\ Len(text) >= 4
  /\ IsSpace(text[1])
  /\ IsSpace(text[Len(text)])
  /\ \E i \in 2..(Len(text) - 2) : text[i] = "." /\ IsSpace(text[i + 1])
  /\ Len(final_chunks) >= 2

=============================================================================
